---- MODULE Spec2Model ----
(***************************************************************************)
(* Authentication and session-lifecycle core of the Ocean blog platform:   *)
(* the User model (backend/models/Post.js, from `userSchema` on), the auth *)
(* routes (backend/routes/auth.js), the HTTP gate (middleware/auth.js) and *)
(* the realtime gate (middleware/socketAuth.js).                           *)
(*                                                                         *)
(* Time is a discrete clock `now` counted in half hours.  A JSON web token *)
(* is the record of what decides its verification: the signing key, the    *)
(* payload's type discriminator and user id, and the iat/exp stamps.  Two  *)
(* tokens signed for the same payload at the same clock value are the same *)
(* token, as jwt.sign yields the same string for the same payload and iat. *)
(* The email and role claims of an access token are read by no handler and *)
(* are left out of the record.  JWT_SECRET and JWT_REFRESH_SECRET are two  *)
(* different secrets.                                                      *)
(*                                                                         *)
(* Every handler is one action: the requests are served one at a time.     *)
(***************************************************************************)
EXTENDS Integers, Sequences, FiniteSets, Bags, TLC

VARIABLES
  now,      \* the clock, what Date.now() returns
  ticks,    \* how often the clock has advanced
  users,    \* the users collection: document id -> stored record
  nextId,   \* the id the next created document gets
  issued,   \* every token the server has handed to a client
  last,     \* the last request handled and its reply
  streak,   \* per user: wrong-password Logins in a row since loginAttempts was 0
  failAt,   \* per user: clock value of the last wrong-password Login
  revoked,  \* per user: refresh tokens issued before the last revocation of
            \* all sessions and not issued again since
  sockets,  \* the realtime connections whose connection handler has run: a
            \* bag of their states
  pending   \* the requests that have read the user record and have not yet
            \* written it back: a bag of the documents they hold

vars == <<now, ticks, users, nextId, issued, last, streak, failAt, revoked,
          sockets, pending>>

(* ------------------------------ bounds -------------------------------- *)

MaxUsers == 2
MaxTicks == 2
MaxSockets == 2
MaxPending == 3

(* ------------------------- program constants -------------------------- *)

maxAttempts == 5
lockTime == 4
MaxRefreshTokens == 5
AccessTTL == 336
RefreshTTL == 1440
VerifyTTL == 48
ResetTTL == 2

Undef == -1

Ids == 1..MaxUsers

Emails == {"a@x", "A@x", "b@x"}

Passwords == {"Passw0rd!", "Passw1rd!", "weak"}

GoodPasswords == Passwords \ {"weak"}

\* the addresses that name one and the same account
OneAccount == {"a@x", "A@x"}

(* ------------------------------ tokens -------------------------------- *)

NoToken == [key |-> "none", type |-> "none", id |-> 0, iat |-> 0, exp |-> 0]

ForgedToken == [key |-> "attacker", type |-> "none", id |-> 1, iat |-> 0, exp |-> 1000000]

Sign(key, type, id, t, ttl) ==
  [key |-> key, type |-> type, id |-> id, iat |-> t, exp |-> t + ttl]

\* jwt.verify ignoring the exp stamp
jwtVerify_NoExpiry(tok, key, t) ==
  IF tok.key # key THEN "JsonWebTokenError" ELSE "ok"

jwtVerify(tok, key, t) ==
  IF tok.key # key THEN "JsonWebTokenError"
  ELSE IF t >= tok.exp THEN "TokenExpiredError"
  ELSE "ok"

(* ------------------------------ users --------------------------------- *)

Lower(e) == IF e = "A@x" THEN "a@x" ELSE e

normalizeEmail(e) == Lower(e)

ValidPassword(p) == p # "weak"

\* the length of a password, what the schema's minlength validator looks at
PasswordLength(p) == CASE p = "" -> 0 [] p = "weak" -> 4 [] OTHER -> 9

MinPasswordLength == 8

\* the password path of the user schema accepts the value on save
SchemaPassword(p) == PasswordLength(p) >= MinPasswordLength

Hash(p) == <<"bcrypt", p>>

NoHash == <<"bcrypt", "">>

NoUser ==
  [exists |-> FALSE, email |-> "", password |-> NoHash, role |-> "user",
   isActive |-> FALSE, isEmailVerified |-> FALSE,
   emailVerificationToken |-> NoToken, passwordResetToken |-> NoToken,
   passwordResetExpires |-> Undef, loginAttempts |-> 0, lockUntil |-> Undef,
   lastLogin |-> Undef, refreshTokens |-> <<>>]

NewUser(email, password, t) ==
  [exists |-> TRUE, email |-> Lower(email), password |-> Hash(password),
   role |-> "user", isActive |-> TRUE, isEmailVerified |-> FALSE,
   emailVerificationToken |-> NoToken, passwordResetToken |-> NoToken,
   passwordResetExpires |-> Undef, loginAttempts |-> 0, lockUntil |-> Undef,
   lastLogin |-> t, refreshTokens |-> <<>>]

\* A query result: the paths declared select:false are absent from the
\* document unless the query asks for them with select('+path').
Select(u, plus) ==
  [u EXCEPT
     !.password = IF "password" \in plus THEN @ ELSE NoHash,
     !.emailVerificationToken =
        IF "emailVerificationToken" \in plus THEN @ ELSE NoToken,
     !.passwordResetToken = IF "passwordResetToken" \in plus THEN @ ELSE NoToken,
     !.passwordResetExpires = IF "passwordResetExpires" \in plus THEN @ ELSE Undef]

findOne(email) ==
  IF \E i \in Ids : users[i].exists /\ users[i].email = email
  THEN CHOOSE i \in Ids : users[i].exists /\ users[i].email = email
  ELSE 0

findById(id) == IF id \in Ids /\ users[id].exists THEN id ELSE 0

\* the isLocked virtual ending the lock one clock unit early
isLocked_OneShort(u, t) == u.lockUntil # Undef /\ u.lockUntil > t + 1

isLocked(u, t) == u.lockUntil # Undef /\ u.lockUntil > t

\* comparePassword accepting every candidate
comparePassword_Always(candidate, u) == TRUE

comparePassword(candidate, u) == Hash(candidate) = u.password

\* generateAuthToken signing with the refresh secret
generateAuthToken_RefreshSecret(id, t) ==
  Sign("JWT_REFRESH_SECRET", "none", id, t, AccessTTL)

generateAuthToken(id, t) == Sign("JWT_SECRET", "none", id, t, AccessTTL)

RefreshTokenFor(id, t) == Sign("JWT_REFRESH_SECRET", "none", id, t, RefreshTTL)

LastN(s, n) == IF Len(s) > n THEN SubSeq(s, Len(s) - n + 1, Len(s)) ELSE s

\* generateRefreshToken keeping the first 5 entries instead of the last 5
generateRefreshToken_KeepFirst(list, id, t) ==
  LET pushed == Append(list, [token |-> RefreshTokenFor(id, t), createdAt |-> t])
  IN  IF Len(pushed) > MaxRefreshTokens THEN SubSeq(pushed, 1, MaxRefreshTokens)
      ELSE pushed

\* generateRefreshToken returning a token that it does not store
generateRefreshToken_NotStored(list, id, t) == list

\* the stored list after generateRefreshToken pushed the token issued at t
generateRefreshToken(list, id, t) ==
  LET pushed == Append(list, [token |-> RefreshTokenFor(id, t), createdAt |-> t])
  IN  IF Len(pushed) > MaxRefreshTokens THEN LastN(pushed, MaxRefreshTokens)
      ELSE pushed

\* incLoginAttempts locking only once the stored counter has reached the maximum
incLoginAttempts_LateLock(u, t) ==
  IF u.lockUntil # Undef /\ u.lockUntil < t
  THEN [u EXCEPT !.loginAttempts = 1, !.lockUntil = Undef]
  ELSE [u EXCEPT !.loginAttempts = @ + 1,
                 !.lockUntil = IF u.loginAttempts >= maxAttempts /\ ~isLocked(u, t)
                               THEN t + lockTime ELSE @]

incLoginAttempts(u, t) ==
  IF u.lockUntil # Undef /\ u.lockUntil < t
  THEN [u EXCEPT !.loginAttempts = 1, !.lockUntil = Undef]
  ELSE [u EXCEPT !.loginAttempts = @ + 1,
                 !.lockUntil = IF u.loginAttempts + 1 >= maxAttempts /\ ~isLocked(u, t)
                               THEN t + lockTime ELSE @]

(* ----------------------------- responses ------------------------------ *)

\* What the last handled request was and what it answered: acct is the account
\* the request addressed (0: none), user the identity the response or the gate
\* attached (0: none), token/password what the client presented, access/refresh
\* the tokens the response carried, evicted the stored refresh token that the
\* cap of the session list pushed out while the request was handled.
Resp(op, status, message, acct, user, token, password, access, refresh) ==
  [op |-> op, status |-> status, message |-> message, acct |-> acct,
   user |-> user, token |-> token, password |-> password, access |-> access,
   refresh |-> refresh, evicted |-> NoToken]

\* the entry a push onto a full session list pushes out
Oldest(list) == IF Len(list) >= MaxRefreshTokens THEN list[1].token ELSE NoToken

Evicting(resp, list) == [resp EXCEPT !.evicted = Oldest(list)]

NoResp(op) == Resp(op, 0, "", 0, 0, NoToken, "", NoToken, NoToken)

Fail(op, status, message, acct, token, password) ==
  Resp(op, status, message, acct, 0, token, password, NoToken, NoToken)

Init ==
  /\ now = 0
  /\ ticks = 0
  /\ users = [i \in Ids |-> NoUser]
  /\ nextId = 1
  /\ issued = {}
  /\ last = NoResp("init")
  /\ streak = [i \in Ids |-> 0]
  /\ failAt = [i \in Ids |-> Undef]
  /\ revoked = [i \in Ids |-> {}]
  /\ sockets = EmptyBag
  /\ pending = EmptyBag

(* ------------------------------ actions ------------------------------- *)

Tick(d) ==
  /\ ticks < MaxTicks
  /\ now' = now + d
  /\ ticks' = ticks + 1
  /\ last' = NoResp("tick")
  /\ UNCHANGED <<sockets, pending, users, nextId, issued, streak, failAt, revoked>>

\* POST /api/auth/register
Register(email, password, confirmPassword) ==
  LET e == normalizeEmail(email)
      valid == ValidPassword(password) /\ confirmPassword = password
      existing == findOne(e)
      id == nextId
      access == generateAuthToken(id, now)
      refresh == RefreshTokenFor(id, now)
  IN
  /\ UNCHANGED <<sockets, pending, now, ticks, streak, failAt>>
  /\ IF ~valid THEN
       /\ last' = Fail("register", 400, "Validation failed", 0, NoToken, password)
       /\ UNCHANGED <<users, nextId, issued, revoked>>
     ELSE IF existing # 0 THEN
       /\ last' = Fail("register", 400, "User with this email already exists", existing, NoToken, password)
       /\ UNCHANGED <<users, nextId, issued, revoked>>
     ELSE
       /\ nextId <= MaxUsers
       /\ users' = [users EXCEPT ![id] =
                      [NewUser(e, password, now) EXCEPT
                         !.refreshTokens = generateRefreshToken(<<>>, id, now)]]
       /\ nextId' = nextId + 1
       /\ issued' = issued \cup {access, refresh}
       /\ revoked' = [revoked EXCEPT ![id] = @ \ {refresh}]
       /\ last' = Resp("register", 201, "User registered successfully", id, id, NoToken, password, access, refresh)

Gate(status, message, user) == [status |-> status, message |-> message, user |-> user]

\* loginFailure telling an unknown email apart
loginFailure_Leaky(outcome) ==
  CASE outcome = "noUser" -> Gate(404, "User not found", 0)
    [] outcome = "locked" ->
         Gate(423, "Account temporarily locked due to too many failed login attempts", 0)
    [] outcome = "deactivated" -> Gate(401, "Account is deactivated", 0)
    [] outcome = "badPassword" -> Gate(401, "Invalid email or password", 0)

\* the reply of POST /login for each way it ends without tokens
loginFailure(outcome) ==
  CASE outcome = "noUser" -> Gate(401, "Invalid email or password", 0)
    [] outcome = "locked" ->
         Gate(423, "Account temporarily locked due to too many failed login attempts", 0)
    [] outcome = "deactivated" -> Gate(401, "Account is deactivated", 0)
    [] outcome = "badPassword" -> Gate(401, "Invalid email or password", 0)

\* POST /api/auth/login
Login(email, password) ==
  LET e == normalizeEmail(email)
      id == findOne(e)
      u == Select(users[id], {"password"})
      access == generateAuthToken(id, now)
      refresh == RefreshTokenFor(id, now)
      reply(outcome) == Fail("login", loginFailure(outcome).status,
                             loginFailure(outcome).message, id, NoToken, password)
  IN
  /\ UNCHANGED <<sockets, pending, now, ticks, nextId>>
  /\ IF id = 0 THEN
       /\ last' = reply("noUser")
       /\ UNCHANGED <<users, issued, streak, failAt, revoked>>
     ELSE IF isLocked(u, now) THEN
       /\ last' = reply("locked")
       /\ UNCHANGED <<users, issued, streak, failAt, revoked>>
     ELSE IF ~u.isActive THEN
       /\ last' = reply("deactivated")
       /\ UNCHANGED <<users, issued, streak, failAt, revoked>>
     ELSE IF ~comparePassword(password, u) THEN
       /\ users' = [users EXCEPT ![id] = incLoginAttempts(users[id], now)]
       /\ streak' = [streak EXCEPT ![id] =
                       IF users[id].loginAttempts = 0 THEN 1
                       ELSE IF @ \in 1..(maxAttempts - 1) THEN @ + 1 ELSE 0]
       /\ failAt' = [failAt EXCEPT ![id] = now]
       /\ last' = reply("badPassword")
       /\ UNCHANGED <<issued, revoked>>
     ELSE
       /\ users' = [users EXCEPT ![id] =
                      [@ EXCEPT !.loginAttempts = IF u.loginAttempts > 0 THEN 0 ELSE @,
                                !.lockUntil = IF u.loginAttempts > 0 THEN Undef ELSE @,
                                !.lastLogin = now,
                                !.refreshTokens = generateRefreshToken(@, id, now)]]
       /\ streak' = [streak EXCEPT ![id] = 0]
       /\ failAt' = [failAt EXCEPT ![id] = Undef]
       /\ issued' = issued \cup {access, refresh}
       /\ revoked' = [revoked EXCEPT ![id] = @ \ {refresh}]
       /\ last' = Evicting(Resp("login", 200, "Login successful", id, id, NoToken, password, access, refresh),
                        users[id].refreshTokens)

(* ------------------------------- gates -------------------------------- *)

\* An Authorization header: its scheme word and the token after the blank
\* (NoToken: nothing follows the scheme); scheme "none": no header is sent
NoHeader == [scheme |-> "none", token |-> NoToken]

Schemes == {"Bearer", "Basic"}

\* the headers a client can send
Headers == {NoHeader} \cup [scheme : Schemes, token : issued \cup {ForgedToken, NoToken}]

\* of the schemes a client sends here, the one that passes startsWith('Bearer')
startsWithBearer(h) == h.scheme = "Bearer"

\* the token extraction taking the second word of every header
bearerToken_AnyScheme(h) == h.token

\* authorization.split(' ')[1] of a header that starts with Bearer
bearerToken(h) == IF startsWithBearer(h) THEN h.token ELSE NoToken

\* authenticate without the isActive test
authenticate_NoActiveCheck(tok, t) ==
  IF tok = NoToken THEN Gate(401, "Access token is required", 0)
  ELSE IF jwtVerify(tok, "JWT_SECRET", t) = "JsonWebTokenError"
       THEN Gate(401, "Invalid token", 0)
  ELSE IF jwtVerify(tok, "JWT_SECRET", t) = "TokenExpiredError"
       THEN Gate(401, "Token expired", 0)
  ELSE IF findById(tok.id) = 0 THEN Gate(401, "User no longer exists", 0)
  ELSE Gate(200, "", tok.id)

\* authenticate refusing the token of a user who has no session left
authenticate_SessionBound(tok, t) ==
  IF tok = NoToken THEN Gate(401, "Access token is required", 0)
  ELSE IF jwtVerify(tok, "JWT_SECRET", t) = "JsonWebTokenError"
       THEN Gate(401, "Invalid token", 0)
  ELSE IF jwtVerify(tok, "JWT_SECRET", t) = "TokenExpiredError"
       THEN Gate(401, "Token expired", 0)
  ELSE IF findById(tok.id) = 0 THEN Gate(401, "User no longer exists", 0)
  ELSE IF ~users[tok.id].isActive THEN Gate(401, "Account is deactivated", 0)
  ELSE IF users[tok.id].refreshTokens = <<>> THEN Gate(401, "Invalid token", 0)
  ELSE Gate(200, "", tok.id)

\* middleware/auth.js authenticate: the bearer token of the Authorization
\* header (NoToken: no header), checked at clock value t
authenticate(tok, t) ==
  IF tok = NoToken THEN Gate(401, "Access token is required", 0)
  ELSE IF jwtVerify(tok, "JWT_SECRET", t) = "JsonWebTokenError"
       THEN Gate(401, "Invalid token", 0)
  ELSE IF jwtVerify(tok, "JWT_SECRET", t) = "TokenExpiredError"
       THEN Gate(401, "Token expired", 0)
  ELSE IF findById(tok.id) = 0 THEN Gate(401, "User no longer exists", 0)
  ELSE IF ~users[tok.id].isActive THEN Gate(401, "Account is deactivated", 0)
  ELSE Gate(200, "", tok.id)

\* middleware/auth.js optionalAuth: never blocks, attaches a user or none
optionalAuth(tok, t) ==
  IF tok # NoToken
     /\ jwtVerify(tok, "JWT_SECRET", t) = "ok"
     /\ findById(tok.id) # 0
     /\ users[tok.id].isActive
  THEN Gate(200, "", tok.id)
  ELSE Gate(200, "", 0)

\* the token sources of authenticateSocket tried in the opposite order
handshakeToken_QueryFirst(auth, header, query) ==
  IF query # NoToken THEN query
  ELSE IF startsWithBearer(header) THEN header.token
  ELSE auth

\* the token authenticateSocket takes from the handshake: the auth payload's
\* token if there is one, else the word after the scheme of an Authorization
\* header that starts with Bearer, else the token of the query string
handshakeToken(auth, header, query) ==
  IF auth # NoToken THEN auth
  ELSE IF startsWithBearer(header) THEN header.token
  ELSE query

\* authenticateSocket without the isActive test
authenticateSocket_NoActiveCheck(auth, header, query, t) ==
  LET tok == handshakeToken(auth, header, query) IN
  IF tok = NoToken THEN Gate(0, "Authentication token required", 0)
  ELSE IF jwtVerify(tok, "JWT_SECRET", t) = "JsonWebTokenError"
       THEN Gate(0, "Invalid token", 0)
  ELSE IF jwtVerify(tok, "JWT_SECRET", t) = "TokenExpiredError"
       THEN Gate(0, "Token expired", 0)
  ELSE IF findById(tok.id) = 0 THEN Gate(0, "User not found", 0)
  ELSE Gate(101, "connected", tok.id)

\* middleware/socketAuth.js authenticateSocket; status 101: the connection is
\* established, status 0: it is refused with the message
authenticateSocket(auth, header, query, t) ==
  LET tok == handshakeToken(auth, header, query) IN
  IF tok = NoToken THEN Gate(0, "Authentication token required", 0)
  ELSE IF jwtVerify(tok, "JWT_SECRET", t) = "JsonWebTokenError"
       THEN Gate(0, "Invalid token", 0)
  ELSE IF jwtVerify(tok, "JWT_SECRET", t) = "TokenExpiredError"
       THEN Gate(0, "Token expired", 0)
  ELSE IF findById(tok.id) = 0 THEN Gate(0, "User not found", 0)
  ELSE IF ~users[tok.id].isActive THEN Gate(0, "Account is deactivated", 0)
  ELSE Gate(101, "connected", tok.id)

\* the tokens a client can present: those the server has handed out, a token
\* signed with a key that is not the server's, or none
Presentable == issued \cup {ForgedToken, NoToken}

\* the access tokens the server has handed out
AccessTokens == {t \in issued : t.key = "JWT_SECRET" /\ t.type = "none"}

\* the refresh tokens the server has handed out
RefreshTokens == {t \in issued : t.key = "JWT_REFRESH_SECRET"}

\* GET /api/auth/me: a request that passes the gate and nothing else
Authenticate(tok) ==
  LET g == authenticate(tok, now) IN
  /\ last' = Resp("authenticate", g.status, g.message, tok.id, g.user, tok, "", NoToken, NoToken)
  /\ UNCHANGED <<sockets, pending, now, ticks, users, nextId, issued, streak, failAt, revoked>>

\* GET /api/auth/me with the Authorization header as the client sent it
AuthenticateHeader(header) ==
  LET tok == bearerToken(header)
      g == authenticate(tok, now) IN
  /\ last' = [header |-> header]
                @@ Resp("authenticate", g.status, g.message, tok.id, g.user, tok, "", NoToken, NoToken)
  /\ UNCHANGED <<sockets, pending, now, ticks, users, nextId, issued, streak, failAt, revoked>>

\* GET /api/posts: a request behind optionalAuth
OptionalAuth(tok) ==
  LET g == optionalAuth(tok, now) IN
  /\ last' = Resp("optionalAuth", g.status, g.message, tok.id, g.user, tok, "", NoToken, NoToken)
  /\ UNCHANGED <<sockets, pending, now, ticks, users, nextId, issued, streak, failAt, revoked>>

\* a socket.io handshake
ConnectSocket(auth, header, query) ==
  LET g == authenticateSocket(auth, header, query, now)
      tok == handshakeToken(auth, header, query) IN
  /\ last' = [auth |-> auth, header |-> header, query |-> query]
                @@ Resp("socket", g.status, g.message, tok.id, g.user, tok, "", NoToken, NoToken)
  /\ UNCHANGED <<sockets, pending, now, ticks, users, nextId, issued, streak, failAt, revoked>>

(* ------------------------------ realtime ------------------------------ *)

\* the posts a client can name in join_post and leave_post
PostIds == {1}

\* the application rooms: user_<id> and post_<postId>
UserRoom(id) == [kind |-> "user", key |-> id]

PostRoom(p) == [kind |-> "post", key |-> p]

\* the socket the connection handler sets up for the user the gate attached;
\* active records whether that user existed and was active when the gate ran,
\* asked the posts the client has sent join_post for
NewSocket(id) ==
  [user |-> id, rooms |-> {UserRoom(id)},
   active |-> id \in Ids /\ users[id].exists /\ users[id].isActive,
   asked |-> {}]

\* a socket.io connection attempt: io.use(authenticateSocket), then, if the
\* gate let it through, the io.on('connection') handler
Connect(auth, header, query) ==
  LET g == authenticateSocket(auth, header, query, now)
      tok == handshakeToken(auth, header, query) IN
  /\ g.status = 101 => BagCardinality(sockets) < MaxSockets
  /\ last' = [auth |-> auth, header |-> header, query |-> query]
                @@ Resp("connect", g.status, g.message, tok.id, g.user, tok, "", NoToken, NoToken)
  /\ sockets' = IF g.status = 101 THEN sockets (+) SetToBag({NewSocket(g.user)})
                ELSE sockets
  /\ UNCHANGED <<pending, now, ticks, users, nextId, issued, streak, failAt, revoked>>

\* the connections after one in state sk has moved to state to
Moved(sk, to) == (sockets (-) SetToBag({sk})) (+) SetToBag({to})

\* socket.on('join_post') of a connection in state sk
JoinPost(sk, p) ==
  /\ BagIn(sk, sockets)
  /\ sockets' = Moved(sk, [sk EXCEPT !.rooms = @ \cup {PostRoom(p)},
                                     !.asked = @ \cup {p}])
  /\ last' = NoResp("join_post")
  /\ UNCHANGED <<pending, now, ticks, users, nextId, issued, streak, failAt, revoked>>

\* socket.on('leave_post') of a connection in state sk
LeavePost(sk, p) ==
  /\ BagIn(sk, sockets)
  /\ sockets' = Moved(sk, [sk EXCEPT !.rooms = @ \ {PostRoom(p)}])
  /\ last' = NoResp("leave_post")
  /\ UNCHANGED <<pending, now, ticks, users, nextId, issued, streak, failAt, revoked>>

(* ------------------------------ sessions ------------------------------ *)

\* cleanupRefreshTokens dropping every entry, expired or not
cleanupRefreshTokens_DropAll(list, t) == <<>>

cleanupRefreshTokens(list, t) ==
  SelectSeq(list, LAMBDA r : jwtVerify(r.token, "JWT_REFRESH_SECRET", t) = "ok")

\* removeRefreshToken clearing the whole list
removeRefreshToken_ClearAll(list, tok) == <<>>

removeRefreshToken(list, tok) == SelectSeq(list, LAMBDA r : r.token # tok)

\* the membership test of POST /refresh answering yes for every token
tokenExists_Always(list, tok) == TRUE

tokenExists(list, tok) == \E k \in 1..Len(list) : list[k].token = tok

RefreshTokensOf(id) == {t \in issued : t.key = "JWT_REFRESH_SECRET" /\ t.id = id}

\* POST /api/auth/refresh
RefreshToken(tok) ==
  LET id == findById(tok.id)
      access == generateAuthToken(id, now)
      refresh == RefreshTokenFor(id, now)
  IN
  /\ UNCHANGED <<sockets, pending, now, ticks, nextId, streak, failAt>>
  /\ IF tok = NoToken THEN
       /\ last' = Fail("refresh", 401, "Refresh token is required", 0, tok, "")
       /\ UNCHANGED <<users, issued, revoked>>
     ELSE IF jwtVerify(tok, "JWT_REFRESH_SECRET", now) # "ok" THEN
       /\ last' = Fail("refresh", 401, "Invalid or expired refresh token", tok.id, tok, "")
       /\ UNCHANGED <<users, issued, revoked>>
     ELSE IF id = 0 THEN
       /\ last' = Fail("refresh", 401, "User not found", tok.id, tok, "")
       /\ UNCHANGED <<users, issued, revoked>>
     ELSE IF ~users[id].isActive THEN
       /\ last' = Fail("refresh", 401, "Account is deactivated", id, tok, "")
       /\ UNCHANGED <<users, issued, revoked>>
     ELSE IF ~tokenExists(users[id].refreshTokens, tok) THEN
       /\ last' = Fail("refresh", 401, "Invalid refresh token", id, tok, "")
       /\ UNCHANGED <<users, issued, revoked>>
     ELSE
       /\ users' = [users EXCEPT ![id].refreshTokens =
                      generateRefreshToken(cleanupRefreshTokens(@, now), id, now)]
       /\ issued' = issued \cup {access, refresh}
       /\ revoked' = [revoked EXCEPT ![id] = @ \ {refresh}]
       /\ last' = Evicting(Resp("refresh", 200, "Token refreshed successfully", id, id, tok, "", access, refresh),
                        cleanupRefreshTokens(users[id].refreshTokens, now))

\* POST /api/auth/logout behind authenticate; refreshToken = NoToken: the body
\* names no refresh token
Logout(bearer, refreshToken) ==
  LET g == authenticate(bearer, now)
      id == g.user
  IN
  /\ UNCHANGED <<sockets, pending, now, ticks, nextId, issued, streak, failAt>>
  /\ IF g.status # 200 THEN
       /\ last' = Fail("logout", g.status, g.message, bearer.id, refreshToken, "")
       /\ UNCHANGED <<users, revoked>>
     ELSE IF refreshToken # NoToken THEN
       /\ users' = [users EXCEPT ![id].refreshTokens = removeRefreshToken(@, refreshToken)]
       /\ last' = Resp("logout", 200, "Logged out successfully", id, id, refreshToken, "", NoToken, NoToken)
       /\ UNCHANGED revoked
     ELSE
       /\ users' = [users EXCEPT ![id].refreshTokens = <<>>]
       /\ revoked' = [revoked EXCEPT ![id] = RefreshTokensOf(id)]
       /\ last' = Resp("logout", 200, "Logged out successfully", id, id, refreshToken, "", NoToken, NoToken)

\* the status the application's error handler answers an error with that no
\* handler has caught: a failure of the store is converted to a generic 500
errorHandler(err) == 500

\* the reply of a save that the schema validation rejects: the error goes to
\* the error handler of the application, which answers 400 or 500
SaveRejected == {400, 500}

\* PATCH /api/auth/change-password behind authenticate; an absent body field
\* is the empty string
ChangePassword(bearer, currentPassword, newPassword) ==
  LET g == authenticate(bearer, now)
      id == g.user
      u == Select(users[id], {"password"})
      reply(r) == [newPassword |-> newPassword] @@ r
  IN
  /\ UNCHANGED <<sockets, pending, now, ticks, nextId, issued, streak, failAt>>
  /\ IF g.status # 200 THEN
       /\ last' = reply(Fail("changePassword", g.status, g.message, bearer.id, bearer, currentPassword))
       /\ UNCHANGED <<users, revoked>>
     ELSE IF currentPassword = "" \/ newPassword = "" THEN
       /\ last' = reply(Fail("changePassword", 400, "Current password and new password are required", id, bearer, currentPassword))
       /\ UNCHANGED <<users, revoked>>
     ELSE IF ~comparePassword(currentPassword, u) THEN
       /\ last' = reply(Fail("changePassword", 400, "Current password is incorrect", id, bearer, currentPassword))
       /\ UNCHANGED <<users, revoked>>
     ELSE IF ~SchemaPassword(newPassword) THEN
       /\ \E st \in SaveRejected :
            last' = reply(Fail("changePassword", st, "Password must be at least 8 characters", id, bearer, currentPassword))
       /\ UNCHANGED <<users, revoked>>
     ELSE
       /\ users' = [users EXCEPT ![id].password = Hash(newPassword),
                                 ![id].refreshTokens = <<>>]
       /\ revoked' = [revoked EXCEPT ![id] = RefreshTokensOf(id)]
       /\ last' = reply(Resp("changePassword", 200, "Password changed successfully", id, id, bearer, currentPassword, NoToken, NoToken))

(* --------------------------- purpose tokens --------------------------- *)

generateEmailVerificationToken(id, t) ==
  Sign("JWT_SECRET", "email_verification", id, t, VerifyTTL)

generatePasswordResetToken(id, t) ==
  Sign("JWT_SECRET", "password_reset", id, t, ResetTTL)

\* the type test of POST /verify-email letting every payload through
isVerificationType_Any(tok) == TRUE

\* the type test of POST /verify-email on the decoded payload
isVerificationType(tok) == tok.type = "email_verification"

\* the type test of POST /reset-password on the decoded payload
isResetType(tok) == tok.type = "password_reset"

\* EmailService.sendMail, which sendEmailVerification and sendPasswordReset
\* return: a message that is not delivered (service not configured, transport
\* error) is reported in the returned object and never thrown
sendMail(delivered) == [success |-> delivered, threw |-> FALSE]

\* POST /api/auth/send-verification behind authenticate; mailOk: whether the
\* mail service delivers the message
SendVerification(bearer, mailOk) ==
  LET g == authenticate(bearer, now)
      id == g.user
      tok == generateEmailVerificationToken(id, now)
      mail == sendMail(mailOk)
  IN
  /\ UNCHANGED <<sockets, pending, now, ticks, nextId, streak, failAt, revoked>>
  /\ IF g.status # 200 THEN
       /\ last' = Fail("sendVerification", g.status, g.message, bearer.id, bearer, "")
       /\ UNCHANGED <<users, issued>>
     ELSE IF users[id].isEmailVerified THEN
       /\ last' = Fail("sendVerification", 400, "Email is already verified", id, bearer, "")
       /\ UNCHANGED <<users, issued>>
     ELSE
       /\ users' = [users EXCEPT ![id].emailVerificationToken = tok]
       /\ issued' = IF mail.success THEN issued \cup {tok} ELSE issued
       /\ last' = IF ~mail.threw
                  THEN Resp("sendVerification", 200, "Verification email sent successfully", id, id, bearer, "", NoToken, NoToken)
                  ELSE Fail("sendVerification", 500, "Could not send verification email", id, bearer, "")

\* POST /api/auth/verify-email
VerifyEmail(tok) ==
  LET id == findById(tok.id)
      v == jwtVerify(tok, "JWT_SECRET", now)
  IN
  /\ UNCHANGED <<sockets, pending, now, ticks, nextId, issued, streak, failAt, revoked>>
  /\ IF tok = NoToken THEN
       /\ last' = Fail("verifyEmail", 400, "Verification token is required", 0, tok, "")
       /\ UNCHANGED users
     ELSE IF v = "TokenExpiredError" THEN
       /\ last' = Fail("verifyEmail", 400, "Verification token has expired", tok.id, tok, "")
       /\ UNCHANGED users
     ELSE IF v # "ok" THEN
       /\ last' = Fail("verifyEmail", 400, "Invalid verification token", tok.id, tok, "")
       /\ UNCHANGED users
     ELSE IF ~isVerificationType(tok) THEN
       /\ last' = Fail("verifyEmail", 400, "Invalid verification token", tok.id, tok, "")
       /\ UNCHANGED users
     ELSE IF id = 0 THEN
       /\ last' = Fail("verifyEmail", 404, "User not found", tok.id, tok, "")
       /\ UNCHANGED users
     ELSE IF users[id].isEmailVerified THEN
       /\ last' = Fail("verifyEmail", 400, "Email is already verified", id, tok, "")
       /\ UNCHANGED users
     ELSE
       /\ users' = [users EXCEPT ![id].isEmailVerified = TRUE,
                                 ![id].emailVerificationToken = NoToken]
       /\ last' = Resp("verifyEmail", 200, "Email verified successfully", id, id, tok, "", NoToken, NoToken)

\* POST /api/auth/forgot-password
ForgotPassword(email, mailOk) ==
  LET e == normalizeEmail(email)
      id == findOne(e)
      tok == generatePasswordResetToken(id, now)
      mail == sendMail(mailOk)
  IN
  /\ UNCHANGED <<sockets, pending, now, ticks, nextId, streak, failAt, revoked>>
  /\ IF id = 0 THEN
       /\ last' = Resp("forgotPassword", 200, "If a user with that email exists, we have sent a password reset link", 0, 0, NoToken, "", NoToken, NoToken)
       /\ UNCHANGED <<users, issued>>
     ELSE IF ~mail.threw THEN
       /\ users' = [users EXCEPT ![id].passwordResetToken = tok,
                                 ![id].passwordResetExpires = now + ResetTTL]
       /\ issued' = IF mail.success THEN issued \cup {tok} ELSE issued
       /\ last' = [delivered |-> mail.success] @@
                    Resp("forgotPassword", 200, "Password reset email sent successfully", id, 0, NoToken, "", NoToken, NoToken)
     ELSE
       /\ users' = [users EXCEPT ![id].passwordResetToken = NoToken,
                                 ![id].passwordResetExpires = Undef]
       /\ last' = [delivered |-> mail.success] @@
                    Fail("forgotPassword", 500, "Could not send password reset email", id, NoToken, "")
       /\ UNCHANGED issued

\* the document POST /reset-password works on: User.findById(decoded.id)
ResetPasswordDoc(id) == Select(users[id], {})

\* the stored-token test of POST /reset-password never rejecting
resetTokenMismatch_Never(u, tok) == FALSE

\* the stored-token test of POST /reset-password on the loaded document
resetTokenMismatch(u, tok) ==
  u.passwordResetToken = NoToken \/ u.passwordResetToken # tok

\* POST /api/auth/reset-password
ResetPassword(tok, password, confirmPassword) ==
  LET id == findById(tok.id)
      valid == tok # NoToken /\ ValidPassword(password) /\ confirmPassword = password
      u == ResetPasswordDoc(id)
  IN
  /\ UNCHANGED <<sockets, pending, now, ticks, nextId, issued, streak, failAt>>
  /\ IF ~valid THEN
       /\ last' = Fail("resetPassword", 400, "Validation failed", 0, tok, password)
       /\ UNCHANGED <<users, revoked>>
     ELSE IF jwtVerify(tok, "JWT_SECRET", now) # "ok" THEN
       /\ last' = Fail("resetPassword", 400, "Invalid or expired reset token", tok.id, tok, password)
       /\ UNCHANGED <<users, revoked>>
     ELSE IF ~isResetType(tok) THEN
       /\ last' = Fail("resetPassword", 400, "Invalid reset token", tok.id, tok, password)
       /\ UNCHANGED <<users, revoked>>
     ELSE IF id = 0 THEN
       /\ last' = Fail("resetPassword", 404, "User not found", tok.id, tok, password)
       /\ UNCHANGED <<users, revoked>>
     ELSE IF resetTokenMismatch(u, tok) THEN
       /\ last' = Fail("resetPassword", 400, "Invalid or expired reset token", id, tok, password)
       /\ UNCHANGED <<users, revoked>>
     ELSE IF u.passwordResetExpires # Undef /\ u.passwordResetExpires < now THEN
       /\ last' = Fail("resetPassword", 400, "Reset token has expired", id, tok, password)
       /\ UNCHANGED <<users, revoked>>
     ELSE
       /\ users' = [users EXCEPT ![id].password = Hash(password),
                                 ![id].passwordResetToken = NoToken,
                                 ![id].passwordResetExpires = Undef,
                                 ![id].refreshTokens = <<>>]
       /\ revoked' = [revoked EXCEPT ![id] = RefreshTokensOf(id)]
       /\ last' = Resp("resetPassword", 200, "Password reset successfully", id, id, tok, password, NoToken, NoToken)

(* ---------------------------- administration -------------------------- *)

\* The isActive flag of the stored user record.  No route of the platform
\* writes it: an account is deactivated or reactivated in the data store.
SetActive(id, b) ==
  /\ users[id].exists
  /\ users[id].isActive # b
  /\ users' = [users EXCEPT ![id].isActive = b]
  /\ last' = NoResp("setActive")
  /\ UNCHANGED <<sockets, pending, now, ticks, nextId, issued, streak, failAt, revoked>>

\* DELETE /api/users/:id behind authenticate
DeleteUser(bearer, id) ==
  LET g == authenticate(bearer, now) IN
  /\ UNCHANGED <<sockets, pending, now, ticks, nextId, issued, streak, failAt, revoked>>
  /\ IF g.status # 200 THEN
       /\ last' = Fail("deleteUser", g.status, g.message, id, bearer, "")
       /\ UNCHANGED users
     ELSE IF findById(id) = 0 THEN
       /\ last' = Fail("deleteUser", 404, "User not found", id, bearer, "")
       /\ UNCHANGED users
     ELSE
       /\ users' = [users EXCEPT ![id] = NoUser]
       /\ last' = Resp("deleteUser", 200, "User deleted successfully", id, g.user, bearer, "", NoToken, NoToken)

\* the values of the role path that the schema's enum accepts
Roles == {"user", "admin", "moderator"}

\* PUT /api/users/:id behind authenticate; email = "" or role = "": the body
\* does not name the field
UpdateUser(bearer, id, email, role) ==
  LET g == authenticate(bearer, now)
      e == Lower(email)
      taken == \E i \in Ids \ {id} : users[i].exists /\ users[i].email = e
  IN
  /\ UNCHANGED <<sockets, pending, now, ticks, nextId, issued, streak, failAt, revoked>>
  /\ IF g.status # 200 THEN
       /\ last' = Fail("updateUser", g.status, g.message, id, bearer, "")
       /\ UNCHANGED users
     ELSE IF findById(id) = 0 THEN
       /\ last' = Fail("updateUser", 404, "User not found", id, bearer, "")
       /\ UNCHANGED users
     ELSE IF email # "" /\ taken THEN
       /\ last' = [user |-> g.user] @@
                    Fail("updateUser", errorHandler("E11000"), "", id, bearer, "")
       /\ UNCHANGED users
     ELSE
       /\ users' = [users EXCEPT
                      ![id].email = IF email # "" THEN e ELSE @,
                      ![id].role = IF role # "" THEN role ELSE @]
       /\ last' = Resp("updateUser", 200, "", id, g.user, bearer, "", NoToken, NoToken)

(* --------------------------- specifications --------------------------- *)

\* one account, its lockout state machine and the clock
NextLockout ==
  \/ \E e \in OneAccount, p \in Passwords, c \in Passwords : Register(e, p, c)
  \/ \E e \in Emails, p \in GoodPasswords : Login(e, p)
  \/ \E i \in Ids, b \in BOOLEAN : SetActive(i, b)
  \/ \E d \in {lockTime - 1, lockTime} : Tick(d)

SpecLockout == Init /\ [][NextLockout]_vars

\* two accounts, every way to authenticate, deactivation
NextAccounts ==
  \/ \E e \in Emails, p \in {"Passw0rd!", "weak"} : Register(e, p, p)
  \/ \E e \in Emails, p \in GoodPasswords : Login(e, p)
  \/ \E t \in Presentable : Authenticate(t)
  \/ \E t \in Presentable : RefreshToken(t)
  \/ \E t \in Presentable : ConnectSocket(t, NoHeader, NoToken)
  \/ \E i \in Ids, b \in BOOLEAN : SetActive(i, b)

SpecAccounts == Init /\ [][NextAccounts]_vars

\* one account and its session list: issue, rotate, revoke, expire
NextSession ==
  \/ \E e \in OneAccount : Register(e, "Passw0rd!", "Passw0rd!")
  \/ \E e \in OneAccount : Login(e, "Passw0rd!")
  \/ \E t \in Presentable : RefreshToken(t)
  \/ \E b \in Presentable, t \in Presentable : Logout(b, t)
  \/ \E d \in {RefreshTTL \div 2} : Tick(d)

SpecSession == Init /\ [][NextSession]_vars

\* one account and its purpose tokens: request, present, expire
NextPurpose ==
  \/ \E e \in OneAccount : Register(e, "Passw0rd!", "Passw0rd!")
  \/ \E t \in Presentable, ok \in BOOLEAN : SendVerification(t, ok)
  \/ \E t \in Presentable : VerifyEmail(t)
  \/ \E e \in Emails, ok \in BOOLEAN : ForgotPassword(e, ok)
  \/ \E t \in Presentable, p \in {"Passw1rd!", "weak"} : ResetPassword(t, p, p)
  \/ \E d \in {ResetTTL \div 2} : Tick(d)

SpecPurpose == Init /\ [][NextPurpose]_vars

\* one account, the tokens it is handed and the three gates
NextGates ==
  \/ \E e \in OneAccount : Register(e, "Passw0rd!", "Passw0rd!")
  \/ \E t \in Presentable, ok \in BOOLEAN : SendVerification(t, ok)
  \/ \E e \in Emails, ok \in BOOLEAN : ForgotPassword(e, ok)
  \/ \E t \in Presentable : Authenticate(t)
  \/ \E t \in Presentable : OptionalAuth(t)
  \/ \E t \in Presentable : ConnectSocket(t, NoHeader, NoToken)
  \/ \E d \in {ResetTTL, VerifyTTL} : Tick(d)

SpecGates == Init /\ [][NextGates]_vars

\* one account over its life: sessions issued, rotated and revoked one by
\* one, the account deactivated, deleted and registered again
NextRefresh ==
  \/ \E e \in OneAccount : Register(e, "Passw0rd!", "Passw0rd!")
  \/ \E t \in Presentable : RefreshToken(t)
  \/ \E b \in AccessTokens, t \in issued \ AccessTokens : Logout(b, t)
  \/ \E i \in Ids, b \in BOOLEAN : SetActive(i, b)
  \/ \E b \in AccessTokens, i \in Ids : DeleteUser(b, i)
  \/ \E d \in {RefreshTTL} : Tick(d)

SpecRefresh == Init /\ [][NextRefresh]_vars

\* what a client can put into a password field of a request body
PasswordInputs == Passwords \cup {""}

\* one account, its password and its sessions
NextPassword ==
  \/ \E e \in OneAccount : Register(e, "Passw0rd!", "Passw0rd!")
  \/ \E b \in AccessTokens \cup {NoToken}, c \in PasswordInputs \ {"weak"},
        n \in PasswordInputs \ {"Passw0rd!"} : ChangePassword(b, c, n)
  \/ \E t \in Presentable : RefreshToken(t)
  \/ \E d \in {RefreshTTL \div 2} : Tick(d)

SpecPassword == Init /\ [][NextPassword]_vars

\* one account that is registered, deactivated, deleted and registered again,
\* and the HTTP gate with every Authorization header
NextHttpGate ==
  \/ \E e \in OneAccount : Register(e, "Passw0rd!", "Passw0rd!")
  \/ \E h \in Headers : AuthenticateHeader(h)
  \/ \E i \in Ids, b \in BOOLEAN : SetActive(i, b)
  \/ \E b \in AccessTokens, i \in Ids : DeleteUser(b, i)
  \/ \E d \in {AccessTTL} : Tick(d)

SpecHttpGate == Init /\ [][NextHttpGate]_vars

\* one account and the realtime gate with every combination of token sources
NextHandshake ==
  \/ \E e \in OneAccount : Register(e, "Passw0rd!", "Passw0rd!")
  \/ \E a \in Presentable, h \in Headers, q \in Presentable : ConnectSocket(a, h, q)
  \/ \E i \in Ids, b \in BOOLEAN : SetActive(i, b)
  \/ \E d \in {AccessTTL} : Tick(d)

SpecHandshake == Init /\ [][NextHandshake]_vars

\* one account, its realtime connections and their rooms
NextRealtime ==
  \/ \E e \in OneAccount : Register(e, "Passw0rd!", "Passw0rd!")
  \/ \E a \in AccessTokens \cup {ForgedToken, NoToken} : Connect(a, NoHeader, NoToken)
  \/ \E sk \in BagToSet(sockets), p \in PostIds : JoinPost(sk, p)
  \/ \E sk \in BagToSet(sockets), p \in PostIds : LeavePost(sk, p)
  \/ \E i \in Ids, b \in BOOLEAN : SetActive(i, b)
  \/ \E b \in AccessTokens, i \in Ids : DeleteUser(b, i)
  \/ \E d \in {AccessTTL} : Tick(d)

SpecRealtime == Init /\ [][NextRealtime]_vars

\* two accounts and the user administration routes
NextUsers ==
  \/ \E e \in Emails : Register(e, "Passw0rd!", "Passw0rd!")
  \/ \E b \in AccessTokens \cup {NoToken}, i \in Ids, e \in {"", "b@x"}, r \in Roles \cup {""} :
       UpdateUser(b, i, e, r)
  \/ \E b \in AccessTokens \cup {NoToken}, i \in Ids : DeleteUser(b, i)
  \/ \E d \in {AccessTTL} : Tick(d)

SpecUsers == Init /\ [][NextUsers]_vars

\* one account whose sessions, password and lockout state change while its
\* access tokens are presented
NextStateless ==
  \/ \E e \in {"a@x"} : Register(e, "Passw0rd!", "Passw0rd!")
  \/ \E e \in {"a@x"}, p \in {"Passw1rd!"} : Login(e, p)
  \/ \E b \in AccessTokens, r \in RefreshTokens \cup {NoToken} : Logout(b, r)
  \/ \E b \in AccessTokens : ChangePassword(b, "Passw0rd!", "Passw1rd!")
  \/ \E t \in AccessTokens : Authenticate(t)
  \/ \E i \in Ids, b \in BOOLEAN : SetActive(i, b)
  \/ \E d \in {AccessTTL \div 2} : Tick(d)

SpecStateless == Init /\ [][NextStateless]_vars

(* ------------------------ overlapping requests ------------------------ *)

\* A handler suspends at each await on the store, and other requests are
\* served meanwhile.  A request that has read the user record is kept in
\* `pending` with the document it holds until its write is served.  Every
\* write that changes the session list counts the document's version up; a
\* pending document is stale once such a write has been served after its read.
Stale(docs, id) ==
  BagOfAll(LAMBDA d : IF d.id = id THEN [d EXCEPT !.stale = TRUE] ELSE d, docs)

\* the checks of POST /refresh between the read of the user and the mutation
\* of the session list all pass
RefreshAdmits(tok) ==
  /\ tok # NoToken
  /\ jwtVerify(tok, "JWT_REFRESH_SECRET", now) = "ok"
  /\ findById(tok.id) # 0
  /\ users[tok.id].isActive
  /\ tokenExists(users[tok.id].refreshTokens, tok)

\* What user.save() sends for the session list.  An assignment that changes
\* the array (cleanupRefreshTokens dropped an entry, or the cap sliced the
\* list) is saved as a $set of the whole array, on condition that the stored
\* version is the one read; a push onto an array that no assignment has
\* changed is saved as a $push, which the store applies to the array as it is.
saveAtomics(list, t) ==
  IF \/ cleanupRefreshTokens(list, t) # list
     \/ Len(cleanupRefreshTokens(list, t)) + 1 > MaxRefreshTokens
  THEN "$set" ELSE "$push"

\* POST /api/auth/refresh up to `await user.save()`: the user is read, the
\* request checked and the session list changed on the document in memory
RefreshRead(tok) ==
  IF ~RefreshAdmits(tok) THEN RefreshToken(tok)
  ELSE
    LET id == tok.id
        list == users[id].refreshTokens
    IN
    /\ BagCardinality(pending) < MaxPending
    /\ pending' = pending (+) SetToBag({
         [op |-> "refresh", id |-> id, token |-> tok, at |-> now,
          base |-> cleanupRefreshTokens(list, now),
          list |-> generateRefreshToken(cleanupRefreshTokens(list, now), id, now),
          atomics |-> saveAtomics(list, now),
          access |-> generateAuthToken(id, now),
          refresh |-> RefreshTokenFor(id, now),
          stale |-> FALSE]})
    /\ last' = NoResp("refreshRead")
    /\ UNCHANGED <<sockets, now, ticks, users, nextId, issued, streak, failAt, revoked>>

\* the store refuses the save of document d: a $set of the array whose
\* version condition no longer matches (VersionError)
saveRefused(d) == d.atomics = "$set" /\ d.stale

\* the save writing back the whole list of the document, whatever is stored
savedList_Overwrite(d) == d.list

\* the session list of d's user once the store has applied d's save
savedList(d) ==
  IF d.atomics = "$set" THEN d.list
  ELSE Append(users[d.id].refreshTokens, [token |-> d.refresh, createdAt |-> d.at])

\* POST /api/auth/refresh from `await user.save()` on: the save is served and
\* the reply sent; an error of the save is caught by the handler's catch
RefreshWrite(d) ==
  /\ BagIn(d, pending)
  /\ d.op = "refresh"
  /\ UNCHANGED <<sockets, now, ticks, nextId, streak, failAt>>
  /\ IF saveRefused(d) THEN
       /\ pending' = pending (-) SetToBag({d})
       /\ last' = Fail("refresh", 401, "Invalid or expired refresh token", d.id, d.token, "")
       /\ UNCHANGED <<users, issued, revoked>>
     ELSE
       /\ users' = [users EXCEPT ![d.id].refreshTokens = savedList(d)]
       /\ pending' = Stale(pending (-) SetToBag({d}), d.id)
       /\ issued' = issued \cup {d.access, d.refresh}
       /\ revoked' = [revoked EXCEPT ![d.id] = @ \ {d.refresh}]
       /\ last' = Evicting(Resp("refresh", 200, "Token refreshed successfully", d.id, d.id, d.token, "", d.access, d.refresh),
                        IF d.atomics = "$set" THEN d.base ELSE <<>>)

\* one account whose refresh requests overlap
NextRefreshRace ==
  \/ \E e \in OneAccount : Register(e, "Passw0rd!", "Passw0rd!")
  \/ \E t \in RefreshTokens \cup {NoToken} : RefreshRead(t)
  \/ \E d \in BagToSet(pending) : RefreshWrite(d)
  \/ \E d \in {RefreshTTL} : Tick(d)

SpecRefreshRace == Init /\ [][NextRefreshRace]_vars

\* POST /api/auth/register up to the first `await user.save()`: the request
\* is validated and the email looked up
RegisterRead(email, password, confirmPassword) ==
  LET e == normalizeEmail(email)
      valid == ValidPassword(password) /\ confirmPassword = password
  IN
  IF ~valid \/ findOne(e) # 0 THEN Register(email, password, confirmPassword)
  ELSE
    /\ BagCardinality(pending) < MaxPending
    /\ pending' = pending (+) SetToBag({
         [op |-> "register", id |-> 0, email |-> e, password |-> password,
          stale |-> FALSE]})
    /\ last' = NoResp("registerRead")
    /\ UNCHANGED <<sockets, now, ticks, users, nextId, issued, streak, failAt, revoked>>

\* POST /api/auth/register from the first `await user.save()` on: the insert
\* is served; the unique index on email refuses a second document with the
\* address, and the error goes to the error handler
RegisterWrite(d) ==
  /\ BagIn(d, pending)
  /\ d.op = "register"
  /\ pending' = pending (-) SetToBag({d})
  /\ IF findOne(d.email) # 0 THEN
       /\ last' = Fail("register", errorHandler("E11000"), "", findOne(d.email), NoToken, d.password)
       /\ UNCHANGED <<sockets, now, ticks, users, nextId, issued, streak, failAt, revoked>>
     ELSE
       LET id == nextId
           access == generateAuthToken(id, now)
           refresh == RefreshTokenFor(id, now)
       IN
       /\ nextId <= MaxUsers
       /\ users' = [users EXCEPT ![id] =
                      [NewUser(d.email, d.password, now) EXCEPT
                         !.refreshTokens = generateRefreshToken(<<>>, id, now)]]
       /\ nextId' = nextId + 1
       /\ issued' = issued \cup {access, refresh}
       /\ revoked' = [revoked EXCEPT ![id] = @ \ {refresh}]
       /\ last' = Resp("register", 201, "User registered successfully", id, id, NoToken, d.password, access, refresh)
       /\ UNCHANGED <<sockets, now, ticks, streak, failAt>>

\* registrations that overlap, for addresses that name the same account and
\* for another one
NextRegisterRace ==
  \/ \E e \in Emails, p \in {"Passw0rd!", "weak"} : RegisterRead(e, p, p)
  \/ \E d \in BagToSet(pending) : RegisterWrite(d)
  \/ \E b \in AccessTokens, i \in Ids : DeleteUser(b, i)
  \/ \E d \in {AccessTTL} : Tick(d)

SpecRegisterRace == Init /\ [][NextRegisterRace]_vars

\* the update incLoginAttempts sends, decided on the document `doc` that the
\* request read and applied by the store to the record `stored`: the $inc
\* counts on from the stored loginAttempts
incLoginAttemptsOn(stored, doc, t) ==
  IF doc.lockUntil # Undef /\ doc.lockUntil < t
  THEN [stored EXCEPT !.loginAttempts = 1, !.lockUntil = Undef]
  ELSE [stored EXCEPT !.loginAttempts = @ + 1,
                      !.lockUntil = IF doc.loginAttempts + 1 >= maxAttempts /\ ~isLocked(doc, t)
                                    THEN t + lockTime ELSE @]

\* POST /api/auth/login up to `await user.incLoginAttempts()`: the user is
\* read and the password compared.  A request that does not end with a wrong
\* password on an unlocked, active account is served in one step.
LoginRead(email, password) ==
  LET id == findOne(normalizeEmail(email))
      u == Select(users[id], {"password"})
  IN
  IF id = 0 \/ isLocked(u, now) \/ ~u.isActive \/ comparePassword(password, u)
  THEN Login(email, password)
  ELSE
    /\ BagCardinality(pending) < MaxPending
    /\ pending' = pending (+) SetToBag({
         [op |-> "login", id |-> id, password |-> password, at |-> now,
          loginAttempts |-> u.loginAttempts, lockUntil |-> u.lockUntil,
          stale |-> FALSE]})
    /\ streak' = [streak EXCEPT ![id] = @ + 1]
    /\ failAt' = [failAt EXCEPT ![id] = now]
    /\ last' = NoResp("loginRead")
    /\ UNCHANGED <<sockets, now, ticks, users, nextId, issued, revoked>>

\* POST /api/auth/login from `await user.incLoginAttempts()` on: the update
\* is served and the failure answered
LoginWrite(d) ==
  /\ BagIn(d, pending)
  /\ d.op = "login"
  /\ pending' = pending (-) SetToBag({d})
  /\ users' = [users EXCEPT ![d.id] =
                 IF @.exists THEN incLoginAttemptsOn(@, d, d.at) ELSE @]
  /\ last' = Fail("login", loginFailure("badPassword").status,
                  loginFailure("badPassword").message, d.id, NoToken, d.password)
  /\ UNCHANGED <<sockets, now, ticks, nextId, issued, streak, failAt, revoked>>

\* one account whose login requests overlap
NextLoginRace ==
  \/ \E e \in OneAccount : Register(e, "Passw0rd!", "Passw0rd!")
  \/ \E e \in OneAccount, p \in GoodPasswords : LoginRead(e, p)
  \/ \E d \in BagToSet(pending) : LoginWrite(d)

SpecLoginRace == Init /\ [][NextLoginRace]_vars

(* ------------------------------- claims ------------------------------- *)

CorrectPassword(id, p) == Hash(p) = users[id].password

\* C1: from loginAttempts = 0, the 5th consecutive wrong-password Login locks
\* the account until the time of that failure + 2 hours; every Login made
\* while now < lockUntil answers 423 AccountLocked, the correct password
\* included, and changes nothing; a Login with the correct password made once
\* the lock window has elapsed succeeds (the account being active).
C1_Step ==
  \A id \in Ids :
    /\ (streak[id] = maxAttempts - 1 /\ streak'[id] = maxAttempts)
         => /\ users'[id].lockUntil = now + lockTime
            /\ isLocked(users'[id], now')
    /\ (last'.op = "login" /\ last'.acct = id /\ users[id].lockUntil # Undef
          /\ now < users[id].lockUntil)
         => /\ last'.status = 423
            /\ last'.access = NoToken /\ last'.refresh = NoToken
            /\ users' = users
    /\ (last'.op = "login" /\ last'.acct = id /\ users[id].lockUntil # Undef
          /\ now >= users[id].lockUntil /\ users[id].isActive
          /\ CorrectPassword(id, last'.password))
         => /\ last'.status = 200
            /\ last'.user = id

C1_LockoutAfterFiveFailures == [][C1_Step]_vars

\* C1 witness: the account was locked by five consecutive failures and a
\* Login with the correct password has just been refused with 423
C1_Witness ==
  /\ last.op = "login" /\ last.status = 423
  /\ last.acct # 0
  /\ streak[last.acct] = maxAttempts
  /\ CorrectPassword(last.acct, last.password)
  /\ users[last.acct].lockUntil = failAt[last.acct] + lockTime

\* C9: a Login with the registered email and password on an account with no
\* failed login, lock or deactivation succeeds, and the access token of the
\* response is unexpired and passes authenticate as that user.
C9_Step ==
  \A id \in Ids :
    (last'.op = "login" /\ last'.acct = id /\ users[id].exists
       /\ users[id].loginAttempts = 0 /\ users[id].lockUntil = Undef
       /\ users[id].isActive /\ CorrectPassword(id, last'.password))
      => (last'.status = 200 /\ last'.user = id)

C9_Token ==
  (last.op = "login" /\ last.status = 200)
    => /\ last.access \in issued
       /\ jwtVerify(last.access, "JWT_SECRET", now) = "ok"
       /\ now < last.access.exp
       /\ authenticate(last.access, now) = Gate(200, "", last.user)

C9_LoginAfterRegister == [][C9_Step]_vars /\ []C9_Token

\* C9 witness: a successful Login on an account that never had a failed one
C9_Witness ==
  /\ last.op = "login" /\ last.status = 200
  /\ users[last.acct].loginAttempts = 0
  /\ authenticate(last.access, now).user = last.acct
  /\ Len(users[last.acct].refreshTokens) = 2

UniformReply == Gate(401, "Invalid email or password", 0)

ReplyOf(r) == Gate(r.status, r.message, r.user)

\* C10: a Login with an unregistered email and a Login with a registered,
\* active, unlocked email and a wrong password get the same reply: the same
\* status 401, the same message, no user and no tokens.
C10_Step ==
  (last'.op = "login"
     /\ \/ last'.acct = 0
        \/ /\ last'.acct # 0
           /\ users[last'.acct].isActive
           /\ ~isLocked(users[last'.acct], now)
           /\ ~CorrectPassword(last'.acct, last'.password))
    => /\ ReplyOf(last') = UniformReply
       /\ last'.access = NoToken /\ last'.refresh = NoToken

C10_UniformLoginFailure == [][C10_Step]_vars

\* C10 witness: a wrong password on a registered, active, unlocked account has
\* been answered exactly as an unregistered email is
C10_Witness ==
  /\ last.op = "login" /\ last.acct # 0
  /\ ~CorrectPassword(last.acct, last.password)
  /\ failAt[last.acct] = now
  /\ ReplyOf(last) = loginFailure("noUser")

Deactivated(id) == id \in Ids /\ users[id].exists /\ ~users[id].isActive

\* C7: while a user's isActive flag is false no authentication path succeeds
\* for that user: Login fails whatever the password, authenticate answers 401
\* and attaches no user, RefreshToken answers 401 and issues nothing, and a
\* realtime handshake is refused.
C7_DeactivatedNeverAuthenticates ==
  Deactivated(last.acct) =>
    /\ last.op = "login" =>
         (last.status \in {401, 423} /\ last.access = NoToken /\ last.refresh = NoToken)
    /\ last.op = "authenticate" => (last.status = 401 /\ last.user = 0)
    /\ last.op = "refresh" =>
         (last.status = 401 /\ last.access = NoToken /\ last.refresh = NoToken)
    /\ last.op = "socket" => (last.status # 101 /\ last.user = 0)

\* C7 witness: a validly signed, unexpired access token of a deactivated user
\* has been refused by authenticate
C7_Witness ==
  /\ last.op = "authenticate" /\ Deactivated(last.acct)
  /\ last.token \in issued
  /\ jwtVerify(last.token, "JWT_SECRET", now) = "ok"
  /\ last.status = 401 /\ last.message = "Account is deactivated"

\* C2: after a Logout that names no refresh token the user's session list is
\* empty, and every refresh token issued to the user before that Logout (and
\* not issued again since) fails RefreshToken with 401, issuing nothing; while
\* the token is unexpired the reply is "Invalid refresh token".
C2_Step ==
  /\ (last'.op = "logout" /\ last'.status = 200 /\ last'.token = NoToken)
       => /\ users'[last'.acct].refreshTokens = <<>>
          /\ RefreshTokensOf(last'.acct) \subseteq revoked'[last'.acct]
  /\ \A id \in Ids :
       (last'.op = "refresh" /\ last'.token \in revoked[id])
         => /\ last'.status = 401
            /\ last'.access = NoToken /\ last'.refresh = NoToken
            /\ users' = users
            /\ (now < last'.token.exp /\ users[id].isActive)
                 => last'.message = "Invalid refresh token"

C2_LoggedOutTokensFailRefresh == [][C2_Step]_vars

\* C2 witness: two different refresh tokens were revoked by a Logout without
\* token and one of them, still unexpired, has just been refused by RefreshToken
C2_Witness ==
  /\ last.op = "refresh" /\ last.status = 401
  /\ last.message = "Invalid refresh token"
  /\ last.acct # 0
  /\ last.token \in revoked[last.acct]
  /\ Cardinality(revoked[last.acct]) >= 2
  /\ now < last.token.exp

Sorted(list) ==
  \A j, k \in 1..Len(list) : j <= k => list[j].createdAt <= list[k].createdAt

Unexpired(list, t) == SelectSeq(list, LAMBDA r : t < r.token.exp)

\* C8: a session list never holds more than 5 records and is in issue order;
\* a request that issues a refresh token appends it to the surviving list,
\* and when that list already holds 5 records exactly its oldest one is
\* dropped.
C8_Cap ==
  \A id \in Ids :
    /\ Len(users[id].refreshTokens) <= 5
    /\ Sorted(users[id].refreshTokens)
    /\ \A k \in 1..Len(users[id].refreshTokens) :
         users[id].refreshTokens[k].token =
           RefreshTokenFor(id, users[id].refreshTokens[k].createdAt)

C8_Step ==
  \A id \in Ids :
    (last'.acct = id /\ last'.refresh # NoToken) =>
      LET old == IF last'.op = "refresh"
                 THEN Unexpired(users[id].refreshTokens, now)
                 ELSE users[id].refreshTokens
          rec == [token |-> last'.refresh, createdAt |-> now]
      IN  users'[id].refreshTokens =
            IF Len(old) = 5 THEN Append(Tail(old), rec) ELSE Append(old, rec)

C8_SessionListKeepsLastFive == []C8_Cap /\ [][C8_Step]_vars

\* C8 witness: a token was issued to a full list, whose oldest record went
C8_Witness ==
  /\ last.refresh # NoToken /\ last.evicted # NoToken
  /\ Len(users[last.acct].refreshTokens) = 5
  /\ users[last.acct].refreshTokens[5].token = last.refresh
  /\ last.evicted.iat < users[last.acct].refreshTokens[1].createdAt

\* the reset request a ResetPassword step answers is the one the contract
\* accepts for user id: it presents the reset token stored on the user, within
\* the token's lifetime and the stored expiry, with a valid new password
AcceptableReset(id) ==
  /\ last'.op = "resetPassword"
  /\ users[id].exists
  /\ last'.token # NoToken
  /\ last'.token = users[id].passwordResetToken
  /\ jwtVerify(last'.token, "JWT_SECRET", now) = "ok"
  /\ now <= users[id].passwordResetExpires
  /\ ValidPassword(last'.password)

\* C3: a reset token issued by RequestPasswordReset and presented to
\* ResetPassword with a valid new password, within its lifetime and while it
\* is the stored one, is accepted: the reply is 200, the password becomes the
\* new one and the stored reset token and expiry are cleared.
C3_Step ==
  \A id \in Ids :
    AcceptableReset(id) =>
      /\ last'.status = 200
      /\ users'[id].password = Hash(last'.password)
      /\ users'[id].passwordResetToken = NoToken
      /\ users'[id].passwordResetExpires = Undef

C3_ValidResetTokenAccepted == [][C3_Step]_vars

\* C4: once ResetPassword has gone through for a user (the reset request is
\* the one the contract accepts), the user's session list is empty and no
\* refresh token issued to the user before is still in it.
C4_Step ==
  \A id \in Ids :
    AcceptableReset(id) =>
      /\ users'[id].refreshTokens = <<>>
      /\ \A t \in RefreshTokensOf(id) : ~tokenExists(users'[id].refreshTokens, t)

C4_ResetRevokesSessions == [][C4_Step]_vars

PurposeTypes == {"email_verification", "password_reset"}

\* C5: a purpose token presented as the bearer token to authenticate or
\* optionalAuth, or as the handshake token to authenticateSocket, does not
\* authenticate: no user is attached, authenticate answers 401 and the
\* connection is refused.
C5_PurposeTokenNeverAuthenticates ==
  (last.op \in {"authenticate", "optionalAuth", "socket"}
     /\ last.token.type \in PurposeTypes)
    => /\ last.user = 0
       /\ last.op = "authenticate" => last.status = 401
       /\ last.op = "socket" => last.status # 101

\* C6: a validly signed, unexpired password_reset token presented to
\* VerifyEmail is rejected and changes nothing; a validly signed, unexpired
\* email_verification token presented to ResetPassword is rejected and
\* changes nothing.
C6_Step ==
  /\ (last'.op = "verifyEmail" /\ last'.token.type = "password_reset"
        /\ jwtVerify(last'.token, "JWT_SECRET", now) = "ok")
       => (last'.status = 400 /\ users' = users)
  /\ (last'.op = "resetPassword" /\ last'.token.type = "email_verification"
        /\ jwtVerify(last'.token, "JWT_SECRET", now) = "ok")
       => (last'.status = 400 /\ users' = users)

C6_WrongPurposeRejected == [][C6_Step]_vars

\* C6 witness: an unexpired password_reset token of an unverified user has
\* been refused by VerifyEmail
C6_Witness ==
  /\ last.op = "verifyEmail" /\ last.status = 400
  /\ last.token.type = "password_reset"
  /\ last.token \in issued
  /\ jwtVerify(last.token, "JWT_SECRET", now) = "ok"
  /\ last.acct # 0
  /\ ~users[last.acct].isEmailVerified

\* the stored lock of user id is set and in the future
Locked(id) == users[id].lockUntil # Undef /\ users[id].lockUntil > now

\* C11: a Login on an account whose lockUntil is set and in the future is
\* answered 423 AccountLocked whatever the submitted password is (the password
\* is not evaluated: no failure is counted and no success is recorded), with
\* no tokens, and the stored loginAttempts, lockUntil, lastLogin and session
\* list are unchanged.
C11_Step ==
  \A id \in Ids :
    (last'.op = "login" /\ last'.acct = id /\ Locked(id))
      => /\ ReplyOf(last') = loginFailure("locked")
         /\ last'.status = 423
         /\ last'.access = NoToken /\ last'.refresh = NoToken
         /\ users'[id].loginAttempts = users[id].loginAttempts
         /\ users'[id].lockUntil = users[id].lockUntil
         /\ users'[id].lastLogin = users[id].lastLogin
         /\ users'[id].refreshTokens = users[id].refreshTokens
         /\ streak' = streak /\ failAt' = failAt /\ issued' = issued

C11_LockedLoginChangesNothing == [][C11_Step]_vars

\* C11 witness: a Login with a wrong password on a locked account, one clock
\* unit before the lock ends, has been answered 423 and was not counted
C11_Witness ==
  /\ last.op = "login" /\ last.status = 423
  /\ last.acct # 0
  /\ ~CorrectPassword(last.acct, last.password)
  /\ users[last.acct].lockUntil = now + 1
  /\ users[last.acct].loginAttempts = maxAttempts
  /\ failAt[last.acct] < now

\* C12: a Login with a wrong password on an active account whose lockUntil is
\* set and no longer in the future makes the stored loginAttempts 1 and clears
\* lockUntil: the counter is not incremented and no new lock is set.
C12_Step ==
  \A id \in Ids :
    (last'.op = "login" /\ last'.acct = id /\ users[id].isActive
       /\ users[id].lockUntil # Undef /\ users[id].lockUntil <= now
       /\ ~CorrectPassword(id, last'.password))
      => /\ users'[id].loginAttempts = 1
         /\ users'[id].lockUntil = Undef

C12_ExpiredLockRestartsAtOne == [][C12_Step]_vars

\* C13: after a successful Login the stored user has loginAttempts 0 and no
\* lockUntil, its lastLogin is the time of the login, and the refresh token of
\* the response is in the stored session list.
C13_Step ==
  \A id \in Ids :
    (last'.op = "login" /\ last'.status = 200 /\ last'.acct = id)
      => /\ users'[id].loginAttempts = 0
         /\ users'[id].lockUntil = Undef
         /\ users'[id].lastLogin = now
         /\ last'.refresh = RefreshTokenFor(id, now)
         /\ tokenExists(users'[id].refreshTokens, last'.refresh)

C13_SuccessfulLoginClearsLockout == [][C13_Step]_vars

\* C13 witness: a Login succeeded once a lock window could have elapsed; the
\* stored record is clean and holds the refresh token of the response last
C13_Witness ==
  /\ last.op = "login" /\ last.status = 200
  /\ now >= lockTime
  /\ users[last.acct].loginAttempts = 0
  /\ users[last.acct].lockUntil = Undef
  /\ users[last.acct].lastLogin = now
  /\ users[last.acct].refreshTokens[Len(users[last.acct].refreshTokens)].token = last.refresh

\* the presented token is the oldest entry of a full list of unexpired
\* entries and occurs nowhere else in it
OnlyOldestOfFull(list, tok) ==
  /\ Len(list) = MaxRefreshTokens
  /\ list[1].token = tok
  /\ \A k \in 2..Len(list) : list[k].token # tok

\* C14 as stated: after every successful RefreshToken the presented token is
\* still in the stored session list.
C14_Stated_Step ==
  \A id \in Ids :
    (last'.op = "refresh" /\ last'.status = 200 /\ last'.acct = id)
      => tokenExists(users'[id].refreshTokens, last'.token)

C14_PresentedTokenAlwaysKept == [][C14_Stated_Step]_vars

\* C14 amended: after a successful RefreshToken the presented token is still
\* in the stored session list, except when the unexpired entries of the list
\* were 5 and the presented token was the oldest of them and no other: then
\* the push of the new token drops it.
C14_Step ==
  \A id \in Ids :
    (last'.op = "refresh" /\ last'.status = 200 /\ last'.acct = id)
      => (tokenExists(users'[id].refreshTokens, last'.token)
            <=> ~OnlyOldestOfFull(Unexpired(users[id].refreshTokens, now), last'.token))

C14_PresentedTokenKeptUnlessEvicted == [][C14_Step]_vars

\* C14 witness: a RefreshToken succeeded and filled the list, and the
\* presented token, which is not the one just issued, is still stored
C14_Witness ==
  /\ last.op = "refresh" /\ last.status = 200
  /\ last.token # last.refresh
  /\ Len(users[last.acct].refreshTokens) = MaxRefreshTokens
  /\ tokenExists(users[last.acct].refreshTokens, last.token)

\* C15: RefreshToken answers 401, issues no token and leaves the stored users
\* unchanged whenever the presented token is not signed with the refresh
\* secret, is expired, names a user that does not exist or is deactivated, or
\* is not in that user's stored session list.
C15_Step ==
  LET tok == last'.token IN
  (last'.op = "refresh" /\ tok # NoToken
     /\ \/ tok.key # "JWT_REFRESH_SECRET"
        \/ now >= tok.exp
        \/ ~(tok.id \in Ids /\ users[tok.id].exists)
        \/ ~users[tok.id].isActive
        \/ \A k \in 1..Len(users[tok.id].refreshTokens) :
             users[tok.id].refreshTokens[k].token # tok)
    => /\ last'.status = 401
       /\ last'.access = NoToken /\ last'.refresh = NoToken
       /\ last'.user = 0
       /\ users' = users
       /\ issued' = issued

C15_RefreshFailuresChangeNothing == [][C15_Step]_vars

\* C15 witness: a validly signed, unexpired refresh token whose user has been
\* deleted was refused, while another account exists
C15_Witness ==
  /\ last.op = "refresh" /\ last.status = 401
  /\ last.message = "User not found"
  /\ last.token \in issued
  /\ last.token.key = "JWT_REFRESH_SECRET" /\ now < last.token.exp
  /\ ~users[last.token.id].exists
  /\ \E i \in Ids : users[i].exists /\ users[i].refreshTokens # <<>>

\* new is old without the entries whose token is tok: the other entries are
\* all there, each once, in the order they had
WithoutToken(old, new, tok) ==
  LET kept == {k \in 1..Len(old) : old[k].token # tok}
      pos(k) == Cardinality({j \in kept : j <= k})
  IN  /\ Len(new) = Cardinality(kept)
      /\ \A k \in kept : new[pos(k)] = old[k]

\* C16: a Logout that names a refresh token removes from the requester's
\* stored session list exactly the entries holding that token and keeps every
\* other entry in its place (nothing changes when the token is not in the
\* list); a Logout that names none leaves the list empty; nothing else of the
\* stored users changes.
C16_Step ==
  \A id \in Ids :
    (last'.op = "logout" /\ last'.status = 200 /\ last'.acct = id)
      => /\ IF last'.token # NoToken
            THEN /\ WithoutToken(users[id].refreshTokens, users'[id].refreshTokens,
                                 last'.token)
                 /\ ~tokenExists(users[id].refreshTokens, last'.token)
                      => users' = users
            ELSE users'[id].refreshTokens = <<>>
         /\ users' = [users EXCEPT ![id].refreshTokens = users'[id].refreshTokens]

C16_LogoutRemovesExactlyThatToken == [][C16_Step]_vars

\* C16 witness: a Logout naming an issued refresh token took it out of a list
\* in which younger entries remain
C16_Witness ==
  /\ last.op = "logout" /\ last.status = 200
  /\ last.token \in RefreshTokensOf(last.acct)
  /\ ~tokenExists(users[last.acct].refreshTokens, last.token)
  /\ Len(users[last.acct].refreshTokens) >= 2
  /\ \A k \in 1..Len(users[last.acct].refreshTokens) :
       users[last.acct].refreshTokens[k].createdAt > last.token.iat

\* a ChangePassword request of user id has been handled: it passed the gate
ChangePasswordOf(id) ==
  /\ last'.op = "changePassword"
  /\ last'.token # NoToken
  /\ last'.token.key = "JWT_SECRET" /\ now < last'.token.exp
  /\ last'.token.id = id /\ users[id].exists /\ users[id].isActive

\* the stored password of user id is replaced by the new one and the session
\* list is emptied
Replaced(id) ==
  /\ users'[id].password = Hash(last'.newPassword)
  /\ users'[id].refreshTokens = <<>>

\* every refresh token issued before a revocation of all sessions of a user
\* (and not issued again since) is refused by RefreshToken
RevokedTokensRefused ==
  \A id \in Ids :
    (last'.op = "refresh" /\ last'.token \in revoked[id])
      => /\ last'.status = 401
         /\ last'.access = NoToken /\ last'.refresh = NoToken

\* C17 as stated: ChangePassword replaces the password and empties the
\* session list if and only if the supplied current password matches the
\* stored one; when it does not match the call fails and changes nothing;
\* when it matches, the refresh tokens issued before fail RefreshToken.
C17_Stated_Step ==
  /\ \A id \in Ids :
       ChangePasswordOf(id) =>
         /\ Replaced(id) <=> CorrectPassword(id, last'.password)
         /\ ~CorrectPassword(id, last'.password)
              => (last'.status # 200 /\ users' = users)
         /\ CorrectPassword(id, last'.password)
              => RefreshTokensOf(id) \subseteq revoked'[id]
  /\ RevokedTokensRefused

C17_ChangeIffCurrentMatches == [][C17_Stated_Step]_vars

\* C17 amended: ChangePassword succeeds, replaces the password and empties
\* the session list if and only if the supplied current password matches the
\* stored one and the new password has the 8 characters the user schema asks
\* for; in every other case the call fails and changes nothing; after a
\* success the refresh tokens issued before fail RefreshToken.
C17_Step ==
  /\ \A id \in Ids :
       ChangePasswordOf(id) =>
         LET accepted == /\ CorrectPassword(id, last'.password)
                         /\ PasswordLength(last'.newPassword) >= 8
         IN  /\ accepted <=> last'.status = 200
             /\ accepted => /\ Replaced(id)
                            /\ RefreshTokensOf(id) \subseteq revoked'[id]
                            /\ users' = [users EXCEPT
                                           ![id].password = Hash(last'.newPassword),
                                           ![id].refreshTokens = <<>>]
             /\ ~accepted => users' = users
  /\ RevokedTokensRefused

C17_ChangeIffCurrentMatchesAndNewValid == [][C17_Step]_vars

\* C17 witness: the password was changed, and a refresh token issued before
\* the change, still unexpired, has been refused by RefreshToken
C17_Witness ==
  /\ last.op = "refresh" /\ last.status = 401
  /\ last.message = "Invalid refresh token"
  /\ last.acct # 0
  /\ users[last.acct].password = Hash("Passw1rd!")
  /\ last.token \in revoked[last.acct]
  /\ now < last.token.exp

\* a validly signed, unexpired password_reset token of the existing user id
\* has been presented to ResetPassword
ResetPresented(id) ==
  /\ last'.op = "resetPassword"
  /\ last'.token.type = "password_reset"
  /\ last'.token.key = "JWT_SECRET" /\ now < last'.token.exp
  /\ last'.token.id = id /\ users[id].exists

\* C18: a validly signed, unexpired password_reset token that is not the
\* token stored on the user, or whose stored expiry has passed, is refused by
\* ResetPassword with 400, and the password, the stored reset token and
\* expiry and the session list are unchanged; a token that ResetPassword
\* accepts is no longer the stored one afterwards, so that it is not accepted
\* again.
C18_Step ==
  \A id \in Ids :
    /\ (ResetPresented(id)
          /\ \/ users[id].passwordResetToken # last'.token
             \/ /\ users[id].passwordResetExpires # Undef
                /\ users[id].passwordResetExpires < now)
         => /\ last'.status = 400
            /\ ValidPassword(last'.password)
                 => last'.message \in {"Invalid or expired reset token",
                                       "Reset token has expired"}
            /\ users' = users
            /\ revoked' = revoked
    /\ (ResetPresented(id) /\ last'.status = 200)
         => users'[id].passwordResetToken # last'.token

C18_UnstoredResetTokenRefused == [][C18_Step]_vars

\* C18 witness: a reset token that was handed out and is still unexpired, but
\* is no longer stored on its user, has been refused with a valid new password
C18_Witness ==
  /\ last.op = "resetPassword" /\ last.status = 400
  /\ last.message = "Invalid or expired reset token"
  /\ last.token \in issued
  /\ last.token.type = "password_reset" /\ now < last.token.exp
  /\ last.acct = last.token.id
  /\ users[last.acct].exists
  /\ users[last.acct].passwordResetToken # last.token
  /\ ValidPassword(last.password)

\* tok passes signature and expiry verification under the access secret and
\* its user exists and is active
Admissible(tok) ==
  /\ tok # NoToken
  /\ tok.key = "JWT_SECRET" /\ now < tok.exp
  /\ tok.id \in Ids /\ users[tok.id].exists /\ users[tok.id].isActive

\* C19: authenticate lets the request through with the resolved user attached
\* if and only if the Authorization header is a Bearer header whose token
\* passes signature and expiry verification under the access secret and whose
\* user exists and is active; in every other case it answers 401 and attaches
\* no user.
C19_AuthenticateIffAdmissibleBearer ==
  (last.op = "authenticate") =>
    LET ok == last.header.scheme = "Bearer" /\ Admissible(last.header.token) IN
    /\ ok => (last.status = 200 /\ last.user = last.header.token.id)
    /\ ~ok => (last.status = 401 /\ last.user = 0)

\* C19 witness: a Bearer header with a validly signed, unexpired access token
\* whose user has been deleted was answered 401, while another account exists
C19_Witness ==
  /\ last.op = "authenticate" /\ last.status = 401
  /\ last.message = "User no longer exists"
  /\ last.header.scheme = "Bearer"
  /\ last.header.token \in AccessTokens
  /\ now < last.header.token.exp
  /\ \E i \in Ids : users[i].exists

\* C20: the realtime gate uses the token of the auth payload if there is one,
\* otherwise the token of a Bearer authorization header if there is such a
\* header, otherwise the token of the query string, and the handshake is
\* accepted if and only if that one token is admissible: an inadmissible
\* token in a higher-priority source refuses the handshake whatever the lower
\* ones carry, and a token carried by one source alone decides the handshake.
C20_FirstPresentSourceWins ==
  (last.op = "socket") =>
    LET a == last.auth
        h == last.header
        q == last.query
        bearer == h.scheme = "Bearer"
        accepted == last.status = 101
    IN
    /\ a # NoToken => (last.token = a /\ (accepted <=> Admissible(a)))
    /\ (a = NoToken /\ bearer)
         => (last.token = h.token /\ (accepted <=> Admissible(h.token)))
    /\ (a = NoToken /\ ~bearer) => (last.token = q /\ (accepted <=> Admissible(q)))
    /\ (a # NoToken /\ ~Admissible(a)) => ~accepted
    /\ (a = NoToken /\ bearer /\ ~Admissible(h.token)) => ~accepted
    /\ (a # NoToken /\ h = NoHeader /\ q = NoToken) => (accepted <=> Admissible(a))
    /\ (a = NoToken /\ bearer /\ h.token # NoToken /\ q = NoToken)
         => (accepted <=> Admissible(h.token))
    /\ (a = NoToken /\ h = NoHeader /\ q # NoToken) => (accepted <=> Admissible(q))
    /\ accepted => last.user = last.token.id
    /\ ~accepted => last.user = 0

\* C20 witness: the auth payload carried a token with a bad signature and the
\* handshake was refused although the header and the query string carried an
\* admissible token
C20_Witness ==
  /\ last.op = "socket" /\ last.status = 0
  /\ last.message = "Invalid token"
  /\ last.auth = ForgedToken
  /\ last.header.scheme = "Bearer" /\ Admissible(last.header.token)
  /\ Admissible(last.query)

\* C21: every connection whose connection handler has run carries a user that
\* existed and was active when the gate ran; a handshake whose token is
\* absent, badly signed, expired, or names a missing or deactivated user is
\* refused and opens no connection; a new connection is in the room of its
\* own user and in no other application room, and a connection is in a post
\* room only if its client has sent join_post for that post.
C21_Sockets ==
  \A sk \in BagToSet(sockets) :
    /\ sk.user \in Ids
    /\ sk.active
    /\ UserRoom(sk.user) \in sk.rooms
    /\ \A r \in sk.rooms :
         r = UserRoom(sk.user) \/ (r.kind = "post" /\ r.key \in sk.asked)

C21_Step ==
  (last'.op = "connect") =>
    IF Admissible(last'.token)
    THEN /\ last'.status = 101
         /\ BagCardinality(sockets') = BagCardinality(sockets) + 1
         /\ \E sk \in BagToSet(sockets') :
              /\ sk.user = last'.token.id
              /\ sk.rooms = {UserRoom(last'.token.id)}
              /\ sockets' = sockets (+) SetToBag({sk})
    ELSE /\ last'.status # 101
         /\ sockets' = sockets

C21_ConnectedSocketsAreAuthenticated == []C21_Sockets /\ [][C21_Step]_vars

\* C21 witness: a connection that has joined a post room belongs to a user
\* who has been deactivated since the handshake, and a handshake with that
\* user's token has just been refused
C21_Witness ==
  /\ last.op = "connect" /\ last.status = 0
  /\ last.message = "Account is deactivated"
  /\ \E sk \in BagToSet(sockets) :
       /\ sk.user = last.token.id
       /\ Cardinality(sk.rooms) = 2

(* ------------------------- password reset mail ------------------------ *)

\* the reply of POST /forgot-password to an email no account has
UnknownEmailReply ==
  [status |-> 200,
   message |-> "If a user with that email exists, we have sent a password reset link"]

\* C22: RequestPasswordReset answers a request for a registered email with
\* the status code and body it answers a request for an unregistered email
\* with, whether or not the reset mail is delivered.
C22_Step ==
  (last'.op = "forgotPassword")
    => [status |-> last'.status, message |-> last'.message] = UnknownEmailReply

C22_ResetRequestHidesExistence == [][C22_Step]_vars

\* C23: when RequestPasswordReset has stored a reset token for a user and the
\* reset mail is not delivered, the user's stored reset token and expiry are
\* cleared when the request completes.
C23_Step ==
  (last'.op = "forgotPassword" /\ last'.acct # 0 /\ ~last'.delivered)
    => /\ users'[last'.acct].passwordResetToken = NoToken
       /\ users'[last'.acct].passwordResetExpires = Undef

C23_UndeliveredResetTokenCleared == [][C23_Step]_vars

(* -------------------------- email verification ------------------------ *)

\* C24: a validly signed, unexpired email_verification token of an existing
\* user that is not the verification token stored on that user is refused by
\* VerifyEmail with 400 and leaves the users as they are, isEmailVerified
\* included.
C24_Step ==
  \A id \in Ids :
    (/\ last'.op = "verifyEmail"
     /\ last'.token.type = "email_verification"
     /\ last'.token.key = "JWT_SECRET" /\ now < last'.token.exp
     /\ last'.token.id = id /\ users[id].exists
     /\ users[id].emailVerificationToken # last'.token)
      => /\ last'.status = 400
         /\ users' = users

C24_UnstoredVerificationTokenRefused == [][C24_Step]_vars

(* ------------------------- overlapping refreshes ---------------------- *)

RECURSIVE SeqToBag(_)
SeqToBag(list) ==
  IF list = <<>> THEN EmptyBag
  ELSE SetToBag({Head(list)}) (+) SeqToBag(Tail(list))

\* the session list a RefreshToken call served alone at the time of d's save
\* would store
Serial(d) ==
  generateRefreshToken(cleanupRefreshTokens(users[d.id].refreshTokens, d.at), d.id, d.at)

\* C25 as stated: the save of every RefreshToken call, overlapped or not,
\* answers success and writes back the session list computed from the record
\* the call read, so that the entry another call stored since is lost.
C25_Stated_Step ==
  \A d \in BagToSet(pending) :
    RefreshWrite(d) => /\ last'.status = 200
                       /\ users'[d.id].refreshTokens = d.list

C25_Step ==
  \A d \in BagToSet(pending) :
    RefreshWrite(d) =>
      IF last'.status = 200
      THEN /\ last'.refresh = d.refresh
           /\ tokenExists(users'[d.id].refreshTokens, d.refresh)
           /\ SeqToBag(Serial(d)) \sqsubseteq SeqToBag(users'[d.id].refreshTokens)
      ELSE /\ d.stale
           /\ last'.status = 401
           /\ last'.message = "Invalid or expired refresh token"
           /\ last'.refresh = NoToken /\ last'.access = NoToken
           /\ users' = users

OneUserPerEmail ==
  \A i, j \in Ids :
    (users[i].exists /\ users[j].exists /\ users[i].email = users[j].email) => i = j

\* C26: a Register answered while its email, compared without case, is
\* registered fails with 400 and leaves the users as they are, whatever the
\* order in which the steps of overlapping Register calls are served; a
\* Register that succeeds creates the only user with its email; no two users
\* ever have the same email.
C26_Step ==
  (last'.op = "register") =>
    /\ (last'.status # 201 /\ last'.acct # 0)
          => /\ last'.status = 400
             /\ users' = users /\ nextId' = nextId
    /\ last'.status = 201
          => \A i \in Ids : users[i].exists => users[i].email # users'[last'.acct].email

C26_DuplicateRegisterFails == []OneUserPerEmail /\ [][C26_Step]_vars

\* the part of C26 about the stored users alone
C26_NoDuplicateUser ==
  []OneUserPerEmail
    /\ [][(last'.op = "register" /\ last'.status # 201) => users' = users]_vars

(* --------------------------- user administration ---------------------- *)

\* C27: update user and delete user take effect only for a requester whose
\* role is admin: a step of either operation that changes the stored users
\* was asked for by a user who had the role admin.
C27_Step ==
  (last'.op \in {"updateUser", "deleteUser"} /\ users' # users)
    => /\ last'.user \in Ids
       /\ users[last'.user].role = "admin"

C27_OnlyAdminUpdatesOrDeletes == [][C27_Step]_vars

(* ------------------------------ the counter --------------------------- *)

\* C28: with Login calls served one at a time and the clock advancing between
\* them as it likes, the stored loginAttempts of no account exceeds the
\* lockout threshold of 5.
C28_AttemptsNeverExceedThreshold ==
  \A id \in Ids : users[id].loginAttempts <= maxAttempts

(* --------------------------- overlapping logins ----------------------- *)

\* C29: with Login requests for an account overlapping, no state has more
\* than 5 completed wrong-password checks since the last successful login
\* while the account's lockUntil is unset.
C29_FiveFailuresLockUnderOverlap ==
  \A id \in Ids :
    (users[id].exists /\ users[id].lockUntil = Undef) => streak[id] <= maxAttempts

(* --------------------------- stateless access tokens ------------------ *)

\* C30: what authenticate answers to an access token depends on the clock
\* and on the existence and isActive flag of the token's user only: a step
\* that changes none of the three, whatever it does to the session list, the
\* lockout state or the password, changes the answer to no access token that
\* has been handed out; and a token that verifies, is unexpired and belongs to
\* an existing active user is accepted whatever the rest of the record holds.
C30_Step ==
  \A t \in AccessTokens :
    (/\ now' = now
     /\ users'[t.id].exists = users[t.id].exists
     /\ users'[t.id].isActive = users[t.id].isActive)
      => authenticate(t, now)' = authenticate(t, now)

C30_Accepted ==
  \A t \in AccessTokens :
    (now < t.exp /\ users[t.id].exists /\ users[t.id].isActive)
      => authenticate(t, now) = Gate(200, "", t.id)

C30_AccessTokensAreStateless == []C30_Accepted /\ [][C30_Step]_vars

\* C30 witness: an access token handed out at registration has been accepted
\* after a Logout of all sessions and a later ChangePassword: the session
\* list is empty and the password is no longer the one registered
C30_Witness ==
  /\ last.op = "authenticate" /\ last.status = 200
  /\ last.token.iat < now
  /\ users[last.user].refreshTokens = <<>>
  /\ users[last.user].password = Hash("Passw1rd!")
  /\ users[last.user].loginAttempts > 0

====
